---- MODULE Spec2Model ----
(***************************************************************************)
(* The interview session controller of MockAI: the host application        *)
(* (App), the interview screen (InterviewScreen) with its two effects,     *)
(* the speech recognition singleton, the speech synthesis queue and the    *)
(* asynchronous evaluator call (analyzeAnswer).                            *)
(*                                                                         *)
(* Strings are sequences of one-character strings, so that trim(),         *)
(* concatenation and JavaScript truthiness are computed, not assumed.      *)
(* One action is one event handler run to completion together with the     *)
(* React render it causes and the effect cleanups and effect bodies that   *)
(* render schedules.                                                       *)
(***************************************************************************)
EXTENDS Integers, Sequences, FiniteSets, TLC

VARIABLES
  appState,              \* App: AppState
  questions,             \* App: InterviewQuestion[]
  results,               \* App: InterviewResult[] (the host results sequence)
  error,                 \* App: string | null
  isReportModalOpen,     \* App
  currentQuestionIndex,  \* InterviewScreen state, 0-based as in the source
  isListening,
  transcript,
  finalTranscript,
  textAnswer,
  feedback,
  isAnalyzing,
  localResults,          \* InterviewScreen: results (setLocalResults)
  speechState,
  recAvailable,          \* module constant `recognition` is not null
  recState,              \* the recognition singleton: idle / active / stopping
  synth,                 \* window.speechSynthesis: the queued utterance, undelivered end events
  pending,               \* analyzeAnswer calls awaiting their response
  generating,            \* handleStartInterview awaiting the question service
  alerted                \* the alert() the last step raised, "none" if it raised none

vars == << appState, questions, results, error, isReportModalOpen,
           currentQuestionIndex, isListening, transcript, finalTranscript,
           textAnswer, feedback, isAnalyzing, localResults, speechState,
           recAvailable, recState, synth, pending, generating, alerted >>

appVars == << appState, questions, results, error, isReportModalOpen >>
screenVars == << currentQuestionIndex, isListening, transcript, finalTranscript,
                 textAnswer, feedback, isAnalyzing, localResults, speechState >>

----------------------------------------------------------------------------
\* Bounds of the model

MaxQuestions == 2
MaxLen == 3
MaxStale == 1
MaxPending == 2

----------------------------------------------------------------------------
\* Strings

Sp == " "
Empty == << >>

RECURSIVE TrimStart(_)
TrimStart(s) == IF s # Empty /\ Head(s) = Sp THEN TrimStart(Tail(s)) ELSE s

RECURSIVE TrimEnd(_)
TrimEnd(s) ==
  IF s # Empty /\ s[Len(s)] = Sp THEN TrimEnd(SubSeq(s, 1, Len(s) - 1)) ELSE s

\* String.prototype.trim
Trim(s) == TrimEnd(TrimStart(s))

\* a || b on strings: the empty string is the only falsy string
OrElse(a, b) == IF a # Empty THEN a ELSE b

----------------------------------------------------------------------------
\* Values

SessionStates == {"INTERVIEW", "ANALYZING", "FEEDBACK"}
AppStates == {"SETUP", "GENERATING", "COMPLETE"} \cup SessionStates

Question(i) == [question |-> i, persona |-> i, keywords |-> {i}]

NoFeedback == [id |-> 0, spokenFeedback |-> Empty]
Feedbacks == { [id |-> 1, spokenFeedback |-> <<"f">>],
               [id |-> 2, spokenFeedback |-> Empty] }

NoText == [kind |-> "none", q |-> 0, text |-> Empty]
QuestionText(q) == [kind |-> "question", q |-> q.question, text |-> Empty]
FeedbackText(t) == [kind |-> "feedback", q |-> 0, text |-> t]

NoUtterance == [text |-> NoText, st |-> "none"]

\* inputs of the handlers
TypedInputs == { Empty, <<Sp>>, <<Sp, "t">> }
Overrides == { Empty, <<Sp>>, <<"o", Sp>> }
NoOverride == [given |-> FALSE, text |-> Empty]
OverrideArgs == {NoOverride} \cup {[given |-> TRUE, text |-> o] : o \in Overrides}
Chunks == { <<"s">>, <<Sp>> }
Segment(chunk, final) == [transcript |-> chunk, isFinal |-> final]
\* event.results from event.resultIndex on: one segment, or two
ResultEvents ==
  { << Segment(c, f) >> : c \in Chunks, f \in BOOLEAN }
    \cup { << Segment(<<"s">>, TRUE), Segment(<<"s">>, FALSE) >>,
           << Segment(<<"s">>, TRUE), Segment(<<Sp>>, TRUE) >> }
JobDescriptions == { Empty, <<Sp>>, <<"j">> }

----------------------------------------------------------------------------
\* Derived values of a render

Mounted == appState \in SessionStates

HasCurrentQuestion ==
  currentQuestionIndex >= 0 /\ currentQuestionIndex < Len(questions)

\* const currentQuestion = questions[currentQuestionIndex]
currentQuestion ==
  IF HasCurrentQuestion THEN questions[currentQuestionIndex + 1] ELSE Question(0)

\* const displayedAnswer = isListening || transcript ? transcript : textAnswer
displayedAnswer ==
  IF isListening \/ transcript # Empty THEN transcript ELSE textAnswer

----------------------------------------------------------------------------
\* The devices

\* window.speechSynthesis.cancel(): the queue is emptied; the removed utterance's
\* end/error notification is delivered later, to that utterance's own handlers
SynthCancel(s) ==
  IF s.utt = NoUtterance THEN s
  ELSE [utt |-> NoUtterance,
        stale |-> IF s.stale < MaxStale THEN s.stale + 1 ELSE MaxStale]

\* speak(text): cancel, then queue a new utterance
SynthSpeak(s, text) ==
  [SynthCancel(s) EXCEPT !.utt = [text |-> text, st |-> "queued"]]

\* synth.pause() / synth.resume(): the utterance's pause/resume event follows
SynthPause(s) ==
  IF s.utt.st \in {"speaking", "resuming"} THEN [s EXCEPT !.utt.st = "pausing"] ELSE s

SynthResume(s) ==
  IF s.utt.st \in {"paused", "pausing"} THEN [s EXCEPT !.utt.st = "resuming"] ELSE s

\* recognition.stop(): a started recognition winds down, its end event follows
RecognitionStop(r) == IF r = "active" THEN "stopping" ELSE r

\* recognition.start() throws unless recognition exists and is not started
StartThrows == ~recAvailable \/ recState # "idle"

----------------------------------------------------------------------------
\* The effects a render schedules.  They read the state the render commits,
\* so they are written over the primed variables of the step.

\* useCallback dependencies of handleSubmitAnswer (the setters and speak are stable)
SubmitCallbackChanged ==
  << isListening, finalTranscript, transcript, textAnswer, currentQuestion >>'
    # << isListening, finalTranscript, transcript, textAnswer, currentQuestion >>

\* dependencies of the recognition effect: [finalTranscript, handleSubmitAnswer]
RecognitionEffectReruns == finalTranscript' # finalTranscript \/ SubmitCallbackChanged

\* dependencies of the presentation effect: [currentQuestion, feedback, speak]
PresentationEffectReruns == currentQuestion' # currentQuestion \/ feedback' # feedback

\* if (currentQuestion && !feedback) speak(`Next question, from ...`)
PresentationSpeaks == HasCurrentQuestion' /\ feedback' = NoFeedback

\* the cleanup of the recognition effect exists only when recognition does
\* (the effect returns before registering it otherwise)
Cleanup(d) ==
  IF recAvailable
  THEN [d EXCEPT !.synth = SynthCancel(d.synth), !.rec = RecognitionStop(d.rec)]
  ELSE d

PresentationEffect(d) ==
  IF PresentationSpeaks
  THEN [d EXCEPT !.synth = SynthSpeak(d.synth, QuestionText(currentQuestion'))]
  ELSE d

RecognitionEffect(d) ==
  IF recAvailable THEN d ELSE [d EXCEPT !.alert = "unsupported"]

\* d = [synth, rec, alert] as the handler left them; the result is what the
\* render's effects leave
AfterRender(d) ==
  LET after == appState' \in SessionStates IN
  IF Mounted /\ after THEN
    LET c == IF RecognitionEffectReruns THEN Cleanup(d) ELSE d
        p == IF PresentationEffectReruns THEN PresentationEffect(c) ELSE c
    IN  IF RecognitionEffectReruns THEN RecognitionEffect(p) ELSE p
  ELSE IF ~Mounted /\ after THEN RecognitionEffect(PresentationEffect(d))
  ELSE IF Mounted /\ ~after THEN
    \* unmount: the cleanup runs; end events of the old utterances reach
    \* only the setters of the unmounted instance
    LET c == Cleanup(d) IN [c EXCEPT !.synth.stale = 0]
  ELSE d

Render(s, r, a) ==
  LET d == AfterRender([synth |-> s, rec |-> r, alert |-> a]) IN
  /\ synth' = d.synth
  /\ recState' = d.rec
  /\ alerted' = d.alert

\* useState initial values of InterviewScreen
FreshScreen ==
  /\ currentQuestionIndex' = 0
  /\ isListening' = FALSE
  /\ transcript' = Empty
  /\ finalTranscript' = Empty
  /\ textAnswer' = Empty
  /\ feedback' = NoFeedback
  /\ isAnalyzing' = FALSE
  /\ localResults' = << >>
  /\ speechState' = "idle"

----------------------------------------------------------------------------
\* App

\* SetupScreen.handleStart and the synchronous part of App.handleStartInterview
HandleStart(jd) ==
  /\ appState = "SETUP"
  /\ Trim(jd) # Empty
  /\ appState' = "GENERATING"
  /\ error' = "none"
  /\ generating' = TRUE
  /\ UNCHANGED << questions, results, isReportModalOpen, screenVars,
                  recAvailable, pending >>
  /\ Render(synth, recState, "none")

\* faulty variant: the length of the generated list is not checked
GenerateResolvedUnchecked(n) ==
  /\ generating
  /\ generating' = FALSE
  /\ questions' = [i \in 1..n |-> Question(i)]
  /\ results' = << >>
  /\ appState' = "INTERVIEW"
  /\ error' = error
  /\ FreshScreen
  /\ UNCHANGED << isReportModalOpen, recAvailable, pending >>
  /\ Render(synth, recState, "none")

\* the question service answers with n questions (n = 0: nothing usable)
GenerateResolved(n) ==
  /\ generating
  /\ generating' = FALSE
  /\ IF n > 0
     THEN /\ questions' = [i \in 1..n |-> Question(i)]
          /\ results' = << >>
          /\ appState' = "INTERVIEW"
          /\ error' = error
          /\ FreshScreen
     ELSE /\ error' = "noQuestions"
          /\ appState' = "SETUP"
          /\ UNCHANGED << questions, results, screenVars >>
  /\ UNCHANGED << isReportModalOpen, recAvailable, pending >>
  /\ Render(synth, recState, "none")

\* parseJobDescription or generateQuestions throws
GenerateRejected ==
  /\ generating
  /\ generating' = FALSE
  /\ error' = "service"
  /\ appState' = "SETUP"
  /\ UNCHANGED << questions, results, isReportModalOpen, screenVars,
                  recAvailable, pending >>
  /\ Render(synth, recState, "none")

ResetInterview ==
  /\ appState = "COMPLETE"
  /\ appState' = "SETUP"
  /\ questions' = << >>
  /\ results' = << >>
  /\ error' = "none"
  /\ isReportModalOpen' = FALSE
  /\ UNCHANGED << screenVars, recAvailable, pending, generating >>
  /\ Render(synth, recState, "none")

SetReportModal(open) ==
  /\ appState = "COMPLETE"
  /\ isReportModalOpen = ~open
  /\ isReportModalOpen' = open
  /\ UNCHANGED << appState, questions, results, error, screenVars,
                  recAvailable, pending, generating >>
  /\ Render(synth, recState, "none")

----------------------------------------------------------------------------
\* InterviewScreen: submit and the evaluator call

\* the footer renders the submit control when neither analysing nor reviewing,
\* and the button is disabled while the displayed answer is blank
\* faulty variant: the footer shows the submit control while analysing too
SubmitControlWhileAnalyzing ==
  /\ Mounted
  /\ feedback = NoFeedback
  /\ Trim(displayedAnswer) # Empty

SubmitControlEnabled ==
  /\ Mounted
  /\ ~isAnalyzing
  /\ feedback = NoFeedback
  /\ Trim(displayedAnswer) # Empty

\* (answerOverride !== undefined ? answerOverride : (finalTranscript || transcript)).trim()
SpokenAnswer(arg) ==
  Trim(IF arg.given THEN arg.text ELSE OrElse(finalTranscript, transcript))

\* (spokenAnswer || textAnswer).trim()
AnswerToSubmit(arg) == Trim(OrElse(SpokenAnswer(arg), textAnswer))

\* faulty variant: the early return leaves the flag and the host state set
RejectEmptyKeepsAnalyzing ==
  /\ isAnalyzing' = TRUE
  /\ appState' = "ANALYZING"
  /\ pending' = pending

\* if (!answerToSubmit): the flag and the host state are put back, then return
RejectEmptyAnswer ==
  /\ isAnalyzing' = FALSE
  /\ appState' = "INTERVIEW"
  /\ pending' = pending

HandleSubmitAnswer(arg) ==
  /\ SubmitControlEnabled
  /\ Len(pending) < MaxPending
  /\ LET answerToSubmit == AnswerToSubmit(arg)
         call == [question |-> currentQuestion, answer |-> answerToSubmit]
         stopped == isListening /\ recAvailable
         r == IF stopped THEN RecognitionStop(recState) ELSE recState
     IN  IF answerToSubmit = Empty
         THEN /\ RejectEmptyAnswer
              /\ UNCHANGED << questions, results, error, isReportModalOpen,
                              currentQuestionIndex, isListening, transcript,
                              finalTranscript, textAnswer, feedback, localResults,
                              speechState, recAvailable, generating >>
              /\ Render(synth, r, "none")
         ELSE /\ isAnalyzing' = TRUE
              /\ appState' = "ANALYZING"
              /\ pending' = Append(pending, call)
              /\ UNCHANGED << questions, results, error, isReportModalOpen,
                              currentQuestionIndex, isListening, transcript,
                              finalTranscript, textAnswer, feedback, localResults,
                              speechState, recAvailable, generating >>
              /\ Render(synth, r, "none")

\* faulty variant: prev => [newResult, ...prev]
PrependResult(prev, newResult) == << newResult >> \o prev

\* faulty variant: the result is added twice
AppendResultTwice(prev, newResult) == Append(Append(prev, newResult), newResult)

\* prev => [...prev, newResult]
AppendResult(prev, newResult) == Append(prev, newResult)

Without(seq, i) == SubSeq(seq, 1, i - 1) \o SubSeq(seq, i + 1, Len(seq))

\* faulty variant: speak() is called whatever the spoken text is
SpeaksAnyFeedback(f) == TRUE

\* if (generatedFeedback.spokenFeedback) speak(...)
SpeaksFeedback(f) == f.spokenFeedback # Empty

\* the await returns generatedFeedback: the rest of the try block, then finally
AnalyzeResolved(i, generatedFeedback) ==
  /\ i \in 1..Len(pending)
  /\ LET call == pending[i]
         newResult == [question |-> call.question, answer |-> call.answer,
                       feedback |-> generatedFeedback]
         speaks == SpeaksFeedback(generatedFeedback)
         s == IF speaks
              THEN SynthSpeak(synth, FeedbackText(generatedFeedback.spokenFeedback))
              ELSE synth
     IN  /\ pending' = Without(pending, i)
         /\ results' = AppendResult(results, newResult)
         /\ appState' = "FEEDBACK"
         /\ IF Mounted
            THEN /\ feedback' = generatedFeedback
                 /\ localResults' = AppendResult(localResults, newResult)
                 /\ isAnalyzing' = FALSE
                 /\ UNCHANGED << currentQuestionIndex, isListening, transcript,
                                 finalTranscript, textAnswer, speechState >>
            ELSE FreshScreen
         /\ UNCHANGED << questions, error, isReportModalOpen, recAvailable, generating >>
         /\ Render(s, recState, "none")

\* faulty variant: the catch shows the alert, nothing resets the turn
AnalyzeRejectedStaysAnalyzing(i) ==
  /\ i \in 1..Len(pending)
  /\ pending' = Without(pending, i)
  /\ UNCHANGED << appVars, screenVars, recAvailable, generating >>
  /\ Render(synth, recState, "analysisError")

\* faulty variant: the catch runs, the finally block is missing
AnalyzeRejectedWithoutFinally(i) ==
  /\ i \in 1..Len(pending)
  /\ pending' = Without(pending, i)
  /\ appState' = "INTERVIEW"
  /\ UNCHANGED << questions, results, error, isReportModalOpen, screenVars,
                  recAvailable, generating >>
  /\ Render(synth, recState, "analysisError")

\* the await throws: catch, then finally
AnalyzeRejected(i) ==
  /\ i \in 1..Len(pending)
  /\ pending' = Without(pending, i)
  /\ appState' = "INTERVIEW"
  /\ IF Mounted
     THEN /\ isAnalyzing' = FALSE
          /\ UNCHANGED << currentQuestionIndex, isListening, transcript,
                          finalTranscript, textAnswer, feedback, localResults,
                          speechState >>
     ELSE FreshScreen
  /\ UNCHANGED << questions, results, error, isReportModalOpen, recAvailable,
                  generating >>
  /\ Render(synth, recState, "analysisError")

\* the promise of a pending analyzeAnswer call settles
AnalyzeSettles ==
  \/ \E i \in 1..MaxPending, f \in Feedbacks : AnalyzeResolved(i, f)
  \/ \E i \in 1..MaxPending : AnalyzeRejected(i)

----------------------------------------------------------------------------
\* InterviewScreen: capture

\* the microphone button is rendered in the same footer branch as submit
CaptureControlShown == Mounted /\ ~isAnalyzing /\ feedback = NoFeedback

HandleToggleListening ==
  /\ CaptureControlShown
  /\ IF isListening
     THEN /\ UNCHANGED << isListening, transcript, finalTranscript, textAnswer >>
          /\ UNCHANGED << appVars, currentQuestionIndex, feedback, isAnalyzing,
                          localResults, speechState, recAvailable, pending, generating >>
          /\ Render(synth, RecognitionStop(recState), "none")
     ELSE /\ transcript' = Empty
          /\ finalTranscript' = Empty
          /\ textAnswer' = Empty
          \* recognition.start() throws before setIsListening(true) is reached
          /\ isListening' = ~StartThrows
          /\ UNCHANGED << appVars, currentQuestionIndex, feedback, isAnalyzing,
                          localResults, speechState, recAvailable, pending, generating >>
          /\ Render(synth, IF StartThrows THEN recState ELSE "active", "none")

\* the loop of recognition.onresult over event.results from event.resultIndex
RECURSIVE FinalOf(_)
FinalOf(ev) ==
  IF ev = << >> THEN Empty
  ELSE (IF Head(ev).isFinal THEN Head(ev).transcript ELSE Empty) \o FinalOf(Tail(ev))

RECURSIVE InterimOf(_)
InterimOf(ev) ==
  IF ev = << >> THEN Empty
  ELSE (IF Head(ev).isFinal THEN Empty ELSE Head(ev).transcript) \o InterimOf(Tail(ev))

\* setTranscript(finalTranscript + final + interimTranscript)
NextTranscript(ev) == finalTranscript \o FinalOf(ev) \o InterimOf(ev)

\* if (final) setFinalTranscript(prev => (prev + ' ' + final).trim())
NextFinalTranscript(ev) ==
  IF FinalOf(ev) # Empty
  THEN Trim(finalTranscript \o <<Sp>> \o FinalOf(ev))
  ELSE finalTranscript

\* recognition.onresult, attached while the screen is mounted
OnResult(ev) ==
  /\ Mounted
  /\ recAvailable
  /\ recState \in {"active", "stopping"}
  /\ Len(NextTranscript(ev)) <= MaxLen
  /\ Len(NextFinalTranscript(ev)) <= MaxLen
  /\ transcript' = NextTranscript(ev)
  /\ finalTranscript' = NextFinalTranscript(ev)
  /\ UNCHANGED << appVars, currentQuestionIndex, isListening, textAnswer, feedback,
                  isAnalyzing, localResults, speechState, recAvailable, pending,
                  generating >>
  /\ Render(synth, recState, "none")

\* the recognition ends (after stop(), or by itself); recognition.onend is
\* attached only while the screen is mounted
OnEnd ==
  /\ recState \in {"active", "stopping"}
  /\ isListening' = IF Mounted THEN FALSE ELSE isListening
  /\ UNCHANGED << appVars, currentQuestionIndex, transcript, finalTranscript,
                  textAnswer, feedback, isAnalyzing, localResults, speechState,
                  recAvailable, pending, generating >>
  /\ Render(synth, "idle", "none")

\* the textarea is rendered while there is no feedback, and is disabled while
\* analysing or listening
TextareaEnabled == Mounted /\ feedback = NoFeedback /\ ~(isAnalyzing \/ isListening)

\* textarea onChange with the new value of the field
OnChange(value) ==
  /\ TextareaEnabled
  /\ value # displayedAnswer
  /\ textAnswer' = value
  /\ isListening' = FALSE
  /\ transcript' = Empty
  /\ finalTranscript' = Empty
  /\ UNCHANGED << appVars, currentQuestionIndex, feedback, isAnalyzing,
                  localResults, speechState, recAvailable, pending, generating >>
  /\ Render(synth, IF isListening THEN RecognitionStop(recState) ELSE recState, "none")

----------------------------------------------------------------------------
\* InterviewScreen: playback and advance

\* faulty variant: a paused playback is started again from the beginning
HandleToggleSpokenFeedbackRestarts ==
  /\ Mounted
  /\ feedback # NoFeedback
  /\ UNCHANGED << appVars, screenVars, recAvailable, pending, generating >>
  /\ IF speechState = "playing" THEN Render(SynthPause(synth), recState, "none")
     ELSE IF feedback.spokenFeedback # Empty
     THEN Render(SynthSpeak(synth, FeedbackText(feedback.spokenFeedback)), recState, "none")
     ELSE Render(synth, recState, "none")

\* synth.pause() when playing, synth.resume() when paused, speak() otherwise
HandleToggleSpokenFeedback ==
  /\ Mounted
  /\ feedback # NoFeedback
  /\ UNCHANGED << appVars, screenVars, recAvailable, pending, generating >>
  /\ IF speechState = "playing" THEN Render(SynthPause(synth), recState, "none")
     ELSE IF speechState = "paused" THEN Render(SynthResume(synth), recState, "none")
     ELSE IF feedback.spokenFeedback # Empty
     THEN Render(SynthSpeak(synth, FeedbackText(feedback.spokenFeedback)), recState, "none")
     ELSE Render(synth, recState, "none")

\* faulty variant: the feedback of the turn is not cleared
ClearTurnKeepsFeedback ==
  /\ speechState' = "idle"
  /\ feedback' = feedback
  /\ transcript' = Empty
  /\ finalTranscript' = Empty
  /\ textAnswer' = Empty

\* setSpeechState('idle'); setFeedback(null); setTranscript(''); ...
ClearTurn ==
  /\ speechState' = "idle"
  /\ feedback' = NoFeedback
  /\ transcript' = Empty
  /\ finalTranscript' = Empty
  /\ textAnswer' = Empty

\* faulty variant: the bound is questions.length - 2
HasNextQuestionStopsEarly == currentQuestionIndex < Len(questions) - 2

\* faulty variant: the bound is questions.length
HasNextQuestionOffByOne == currentQuestionIndex < Len(questions)

\* currentQuestionIndex < questions.length - 1
HasNextQuestion == currentQuestionIndex < Len(questions) - 1

\* faulty variant: the footer renders the advance button in every branch
AdvanceControlAlwaysShown == Mounted

\* the footer renders the advance button when not analysing and feedback is shown
AdvanceControlShown == Mounted /\ ~isAnalyzing /\ feedback # NoFeedback

\* faulty variant: window.speechSynthesis.cancel() is not called
HandleNextQuestionWithoutCancel ==
  /\ AdvanceControlShown
  /\ ClearTurn
  /\ IF HasNextQuestion
     THEN /\ currentQuestionIndex' = currentQuestionIndex + 1
          /\ appState' = "INTERVIEW"
     ELSE /\ currentQuestionIndex' = currentQuestionIndex
          /\ appState' = "COMPLETE"
  /\ UNCHANGED << questions, results, error, isReportModalOpen, isListening,
                  isAnalyzing, localResults, recAvailable, pending, generating >>
  /\ Render(synth, recState, "none")

HandleNextQuestion ==
  /\ AdvanceControlShown
  /\ ClearTurn
  /\ IF HasNextQuestion
     THEN /\ currentQuestionIndex' = currentQuestionIndex + 1
          /\ appState' = "INTERVIEW"
     ELSE /\ currentQuestionIndex' = currentQuestionIndex
          /\ appState' = "COMPLETE"
  /\ UNCHANGED << questions, results, error, isReportModalOpen, isListening,
                  isAnalyzing, localResults, recAvailable, pending, generating >>
  /\ Render(SynthCancel(synth), recState, "none")

\* the handlers speak() puts on each utterance
UtteranceOnStart ==
  /\ synth.utt.st = "queued"
  /\ synth' = [synth EXCEPT !.utt.st = "speaking"]
  /\ speechState' = "playing"
  /\ alerted' = "none"
  /\ UNCHANGED << appVars, currentQuestionIndex, isListening, transcript,
                  finalTranscript, textAnswer, feedback, isAnalyzing, localResults,
                  recAvailable, recState, pending, generating >>

UtteranceOnPause ==
  /\ synth.utt.st = "pausing"
  /\ synth' = [synth EXCEPT !.utt.st = "paused"]
  /\ speechState' = "paused"
  /\ alerted' = "none"
  /\ UNCHANGED << appVars, currentQuestionIndex, isListening, transcript,
                  finalTranscript, textAnswer, feedback, isAnalyzing, localResults,
                  recAvailable, recState, pending, generating >>

UtteranceOnResume ==
  /\ synth.utt.st = "resuming"
  /\ synth' = [synth EXCEPT !.utt.st = "speaking"]
  /\ speechState' = "playing"
  /\ alerted' = "none"
  /\ UNCHANGED << appVars, currentQuestionIndex, isListening, transcript,
                  finalTranscript, textAnswer, feedback, isAnalyzing, localResults,
                  recAvailable, recState, pending, generating >>

\* onend of the queued utterance (it finishes), or its onerror
UtteranceOnEnd(how) ==
  /\ \/ how = "onend" /\ synth.utt.st \in {"speaking", "pausing", "resuming"}
     \/ how = "onerror" /\ synth.utt # NoUtterance
  /\ synth' = [synth EXCEPT !.utt = NoUtterance]
  /\ speechState' = "ended"
  /\ alerted' = "none"
  /\ UNCHANGED << appVars, currentQuestionIndex, isListening, transcript,
                  finalTranscript, textAnswer, feedback, isAnalyzing, localResults,
                  recAvailable, recState, pending, generating >>

\* onend/onerror of an utterance that cancel() removed earlier
CancelledUtteranceOnEnd ==
  /\ synth.stale > 0
  /\ synth' = [synth EXCEPT !.stale = @ - 1]
  /\ speechState' = "ended"
  /\ alerted' = "none"
  /\ UNCHANGED << appVars, currentQuestionIndex, isListening, transcript,
                  finalTranscript, textAnswer, feedback, isAnalyzing, localResults,
                  recAvailable, recState, pending, generating >>

----------------------------------------------------------------------------
\* The program

Init ==
  /\ appState = "SETUP"
  /\ questions = << >>
  /\ results = << >>
  /\ error = "none"
  /\ isReportModalOpen = FALSE
  /\ currentQuestionIndex = 0
  /\ isListening = FALSE
  /\ transcript = Empty
  /\ finalTranscript = Empty
  /\ textAnswer = Empty
  /\ feedback = NoFeedback
  /\ isAnalyzing = FALSE
  /\ localResults = << >>
  /\ speechState = "idle"
  /\ recAvailable \in BOOLEAN
  /\ recState = "idle"
  /\ synth = [utt |-> NoUtterance, stale |-> 0]
  /\ pending = << >>
  /\ generating = FALSE
  /\ alerted = "none"

Next ==
  \/ \E jd \in JobDescriptions : HandleStart(jd)
  \/ \E n \in 0..MaxQuestions : GenerateResolved(n)
  \/ GenerateRejected
  \/ ResetInterview
  \/ \E open \in BOOLEAN : SetReportModal(open)
  \/ \E arg \in OverrideArgs : HandleSubmitAnswer(arg)
  \/ \E i \in 1..MaxPending, f \in Feedbacks : AnalyzeResolved(i, f)
  \/ \E i \in 1..MaxPending : AnalyzeRejected(i)
  \/ HandleToggleListening
  \/ \E ev \in ResultEvents : OnResult(ev)
  \/ OnEnd
  \/ \E value \in TypedInputs : OnChange(value)
  \/ HandleToggleSpokenFeedback
  \/ HandleNextQuestion
  \/ UtteranceOnStart
  \/ UtteranceOnPause
  \/ UtteranceOnResume
  \/ \E how \in {"onend", "onerror"} : UtteranceOnEnd(how)
  \/ CancelledUtteranceOnEnd

Spec == Init /\ [][Next]_vars

\* every analyzeAnswer call is answered or fails: its promise settles
FairSpec == Spec /\ WF_vars(AnalyzeSettles)

----------------------------------------------------------------------------
\* Properties

Last(seq) == seq[Len(seq)]

IsPrefix(a, b) == Len(a) <= Len(b) /\ SubSeq(b, 1, Len(a)) = a

\* C1: at most one analyzeAnswer call is in flight in every reachable state, and
\* a call is in flight only while isAnalyzing is true, so that no submit is
\* accepted (started or queued) while one is in flight.
C1_AtMostOneInFlight ==
  /\ Len(pending) <= 1
  /\ (Len(pending) = 1 => isAnalyzing /\ appState = "ANALYZING")

C1_Witness == Len(pending) = 1 /\ isAnalyzing /\ Trim(displayedAnswer) # Empty

\* C2: when the evaluator returns feedback f for the call issued with answer A
\* at question index i, exactly one Result {questions[i], A, f} is appended to
\* the end of the host results, feedback becomes f, the host state becomes
\* FEEDBACK, isAnalyzing becomes false, the index stays i, and playback of
\* f.spokenFeedback is started if and only if it is non-empty.
C2_SuccessPath ==
  [][ \A i \in 1..MaxPending, f \in Feedbacks :
        AnalyzeResolved(i, f) =>
          /\ results' = results \o
               << [question |-> questions[currentQuestionIndex + 1],
                   answer |-> pending[i].answer, feedback |-> f] >>
          /\ feedback' = f
          /\ appState' = "FEEDBACK"
          /\ isAnalyzing /\ ~isAnalyzing'
          /\ currentQuestionIndex' = currentQuestionIndex
          /\ IF f.spokenFeedback # Empty
             THEN synth'.utt = [text |-> FeedbackText(f.spokenFeedback), st |-> "queued"]
             ELSE synth' = synth ]_vars

C2_Witness ==
  /\ appState = "FEEDBACK"
  /\ currentQuestionIndex = 1
  /\ Len(results) = 2
  /\ Last(results).feedback = feedback
  /\ feedback.spokenFeedback # Empty
  /\ synth.utt = [text |-> FeedbackText(feedback.spokenFeedback), st |-> "queued"]

\* C3: when the evaluator call fails, the host state becomes INTERVIEW, the index
\* and both results sequences are unchanged, feedback stays absent, isAnalyzing
\* becomes false and an error message is shown.
C3_FailurePath ==
  [][ \A i \in 1..MaxPending :
        AnalyzeRejected(i) =>
          /\ appState' = "INTERVIEW"
          /\ currentQuestionIndex' = currentQuestionIndex
          /\ results' = results
          /\ localResults' = localResults
          /\ feedback = NoFeedback /\ feedback' = NoFeedback
          /\ isAnalyzing /\ ~isAnalyzing'
          /\ alerted' = "analysisError" ]_vars

C3_Witness ==
  /\ alerted = "analysisError"
  /\ appState = "INTERVIEW"
  /\ ~isAnalyzing
  /\ pending = << >>
  /\ currentQuestionIndex = 1
  /\ Len(results) = 1

\* C4: a submit whose resolved answer is empty after trimming invokes no
\* analyzeAnswer call and leaves the host state INTERVIEW, isAnalyzing false,
\* and the index, feedback, results, transcript buffers, typed text and
\* playback unchanged; only an active capture is asked to stop.
C4_EmptyAnswerRejected ==
  [][ \A arg \in OverrideArgs :
        (AnswerToSubmit(arg) = Empty /\ HandleSubmitAnswer(arg)) =>
          /\ pending' = pending
          /\ appState' = "INTERVIEW"
          /\ ~isAnalyzing'
          /\ UNCHANGED << currentQuestionIndex, feedback, results, localResults,
                          transcript, finalTranscript, textAnswer, isListening,
                          speechState, synth, questions >>
          /\ recState' \in {recState, RecognitionStop(recState)}
          /\ alerted' = "none" ]_vars

C4_Witness ==
  /\ SubmitControlEnabled
  /\ pending = << >>
  /\ isListening
  /\ \E arg \in OverrideArgs : AnswerToSubmit(arg) = Empty

\* C5 (as claimed): every advance cancels the feedback playback, clears
\* feedback, both transcript buffers and the typed text and increments the index
\* by one; the host state becomes INTERVIEW if the new index is in range and
\* COMPLETE otherwise, so that COMPLETE holds exactly when the index equals
\* the number of questions.
C5_AdvanceIncrements ==
  [][ HandleNextQuestion =>
        /\ synth'.utt.text.kind # "feedback"
        /\ feedback' = NoFeedback
        /\ transcript' = Empty /\ finalTranscript' = Empty /\ textAnswer' = Empty
        /\ currentQuestionIndex' = currentQuestionIndex + 1
        /\ appState' = IF currentQuestionIndex' < Len(questions)
                       THEN "INTERVIEW" ELSE "COMPLETE"
        /\ (appState' = "COMPLETE" <=> currentQuestionIndex' = Len(questions)) ]_vars

\* C6 (as claimed): while a session is active the number of collected results
\* never exceeds the index, and equals it whenever no feedback is pending review.
C6_ResultsWithinIndex ==
  Mounted =>
    /\ Len(results) <= currentQuestionIndex
    /\ (feedback = NoFeedback => Len(results) = currentQuestionIndex)

\* C6 (amended): while a session is active the number of collected results
\* never exceeds the index plus one; it equals the index whenever no feedback
\* is pending review and the index plus one while feedback is shown.
C6_ResultsTrackIndex ==
  Mounted =>
    /\ Len(results) <= currentQuestionIndex + 1
    /\ (feedback = NoFeedback => Len(results) = currentQuestionIndex)
    /\ (feedback # NoFeedback => Len(results) = currentQuestionIndex + 1)

C6_Witness ==
  /\ Mounted
  /\ feedback # NoFeedback
  /\ currentQuestionIndex = 1
  /\ Len(results) = 2

\* C7: feedback is present exactly when the question at the index has been
\* analysed successfully and not yet advanced past; the feedback shown is the
\* one stored with the result of the question at the index; it is absent while
\* presenting, while analysing and after an evaluator failure.
C7_FeedbackBelongsToTurn ==
  /\ (feedback # NoFeedback <=> appState = "FEEDBACK")
  /\ (Mounted => (feedback # NoFeedback <=> Len(localResults) = currentQuestionIndex + 1))
  /\ (feedback # NoFeedback =>
        /\ results # << >>
        /\ Last(results).feedback = feedback
        /\ Last(results).question = questions[currentQuestionIndex + 1]
        /\ Last(localResults) = Last(results))
  /\ (isAnalyzing \/ pending # << >> => feedback = NoFeedback)
  /\ (alerted = "analysisError" => feedback = NoFeedback)

C7_Witness ==
  /\ feedback # NoFeedback
  /\ currentQuestionIndex = 1
  /\ Last(results).question = Question(2)
  /\ results[1].feedback # feedback

\* C8: within one interview run the host results are append-only: a successful
\* evaluation adds exactly one entry at the end and every other step (submit,
\* failure, capture events, typing, playback, advance) leaves them unchanged,
\* so the length is the number of successful turns and no entry is ever
\* changed or reordered.
C8_ResultsAppendOnly ==
  [][ (Mounted \/ appState = "COMPLETE") /\ appState' # "SETUP" =>
        IF \E i \in 1..MaxPending, f \in Feedbacks : AnalyzeResolved(i, f)
        THEN Len(results') = Len(results) + 1 /\ IsPrefix(results, results')
        ELSE results' = results ]_vars

C8_Witness ==
  /\ appState = "COMPLETE"
  /\ Len(results) = 2
  /\ results[1].answer # results[2].answer

\* C9: while the session is active the index is a valid index into questions.
C9_IndexInRange ==
  Mounted => currentQuestionIndex >= 0 /\ currentQuestionIndex < Len(questions)

C9_Witness ==
  /\ Mounted
  /\ Len(questions) = 2
  /\ currentQuestionIndex = 1
  /\ feedback # NoFeedback

\* C10 (as claimed): the answer is the explicit override whenever one is given,
\* otherwise the finalized transcript if non-empty, otherwise the interim
\* transcript if non-empty, otherwise the typed text; the chosen text is
\* trimmed, and that text is what is sent to the evaluator (nothing is sent
\* when it is empty).
C10_Chosen(arg) ==
  IF arg.given THEN arg.text
  ELSE IF finalTranscript # Empty THEN finalTranscript
  ELSE IF transcript # Empty THEN transcript
  ELSE textAnswer

C11_InputDiscardedAfterFailure ==
  [][ \A i \in 1..MaxPending :
        AnalyzeRejected(i) =>
          /\ appState' = "INTERVIEW"
          /\ currentQuestionIndex' = currentQuestionIndex
          /\ finalTranscript' = Empty
          /\ transcript' = Empty
          /\ textAnswer' = Empty ]_vars

\* C12 (as claimed): in the state where feedback is shown after a successful
\* evaluation the interim and the finalized transcript buffers are empty.
C12_BuffersClearedOnSuccess ==
  feedback # NoFeedback => transcript = Empty /\ finalTranscript = Empty

\* C13: an analyzeAnswer call in flight is never cancelled, and its completion
\* is applied to the session and turn it was issued for: while a call is
\* pending it is the call for the question at the index, only its own
\* completion removes it, no other step changes the index, the questions, the
\* results or the feedback or leaves ANALYZING, and a successful completion
\* appends the result for the question at the index and stores its feedback.
C13_CompletionAppliesToItsTurn ==
  [][ pending # << >> =>
        /\ Mounted
        /\ \A i \in 1..Len(pending) :
             pending[i].question = questions[currentQuestionIndex + 1]
        /\ IF AnalyzeSettles
           THEN /\ currentQuestionIndex' = currentQuestionIndex
                /\ questions' = questions
                /\ (results' # results =>
                      /\ IsPrefix(results, results')
                      /\ Last(results').question = questions'[currentQuestionIndex' + 1]
                      /\ feedback' = Last(results').feedback)
           ELSE /\ pending' = pending
                /\ appState' = "ANALYZING"
                /\ UNCHANGED << currentQuestionIndex, questions, results,
                                localResults, feedback >> ]_vars

C13_Witness ==
  /\ Len(pending) = 1
  /\ pending[1].question = Question(2)
  /\ currentQuestionIndex = 1
  /\ Len(results) = 1
  /\ recState = "stopping"

\* C14: the in-flight flag never stays stuck: the host state is ANALYZING
\* exactly while isAnalyzing is true, a submit with an empty answer leaves the
\* flag false, and, every evaluator call completing, whenever isAnalyzing is
\* true it eventually becomes false with the host state FEEDBACK or INTERVIEW.
C14_InFlightFlagNotStuck ==
  /\ [](appState = "ANALYZING" <=> isAnalyzing)
  /\ [](isAnalyzing => pending # << >>)
  /\ (isAnalyzing ~> (~isAnalyzing /\ appState \in {"FEEDBACK", "INTERVIEW"}))

C14_Witness ==
  /\ ~isAnalyzing
  /\ appState = "INTERVIEW"
  /\ alerted = "analysisError"
  /\ finalTranscript # Empty
  /\ pending = << >>

\* C15 (as claimed): toggling capture while it is inactive clears the typed
\* text and both transcript buffers and marks capture active; toggling while
\* it is active only asks the device to stop and clears nothing.
C15_ToggleCapture ==
  [][ HandleToggleListening =>
        IF ~isListening
        THEN /\ textAnswer' = Empty
             /\ transcript' = Empty
             /\ finalTranscript' = Empty
             /\ isListening'
        ELSE /\ UNCHANGED << textAnswer, transcript, finalTranscript, isListening >>
             /\ recState' = RecognitionStop(recState) ]_vars

\* C16 (as claimed): only one input mode is authoritative at a time: typing is
\* not accepted while capture is active, after a typing event capture is
\* inactive and both transcript buffers are empty, and in every reachable
\* state the typed text and the transcript buffers are never both non-empty.
C16_InputModeExclusive ==
  /\ [][ (\E value \in TypedInputs : OnChange(value)) =>
           /\ ~isListening
           /\ ~isListening'
           /\ transcript' = Empty
           /\ finalTranscript' = Empty ]_vars
  /\ [](~(textAnswer # Empty /\ (transcript # Empty \/ finalTranscript # Empty)))

\* C17 (as claimed): for the capture events of one capture session, applied in
\* delivery order: the finalized buffer is the space-joined concatenation of
\* all finalized segments so far (it only grows, and capture start resets
\* it), the displayed transcript is the finalized segments so far followed by
\* the newest interim segment, and after an event that delivers only
\* finalized text the displayed transcript equals the finalized buffer.
C17_Join(a, b) ==
  IF a = Empty THEN b ELSE IF b = Empty THEN a ELSE a \o << Sp >> \o b

RECURSIVE C17_Finalized(_, _)
C17_Finalized(buffer, ev) ==
  IF ev = << >> THEN buffer
  ELSE C17_Finalized(IF Head(ev).isFinal
                     THEN C17_Join(buffer, Head(ev).transcript) ELSE buffer,
                     Tail(ev))

C17_CaptureEvents ==
  [][ /\ \A ev \in ResultEvents :
           OnResult(ev) =>
             /\ finalTranscript' = C17_Finalized(finalTranscript, ev)
             /\ IsPrefix(finalTranscript, finalTranscript')
             /\ transcript' \in { finalTranscript' \o InterimOf(ev),
                                  C17_Join(finalTranscript', InterimOf(ev)) }
             /\ (InterimOf(ev) = Empty /\ FinalOf(ev) # Empty =>
                   transcript' = finalTranscript')
      /\ (HandleToggleListening /\ ~isListening => finalTranscript' = Empty) ]_vars

\* C18: advancing past the last question moves the host state to COMPLETE,
\* and in COMPLETE there is no playback and no capture: the advance leaves no
\* utterance queued or speaking (the last question is not spoken again), no
\* utterance is started afterwards, and the recognition is not running.
C18_NoPlaybackOrCaptureWhenComplete ==
  [][ /\ (HandleNextQuestion /\ currentQuestionIndex = Len(questions) - 1 =>
            appState' = "COMPLETE")
      /\ (appState' = "COMPLETE" =>
            /\ synth'.utt = NoUtterance
            /\ recState' # "active"
            /\ speechState' = speechState \/ appState # "COMPLETE") ]_vars

C18_Witness ==
  /\ appState = "COMPLETE"
  /\ Len(results) = 2
  /\ recState = "stopping"
  /\ speechState = "idle"
  /\ synth.utt = NoUtterance

\* C19: the spoken-feedback toggle acts on the playback status: playing ->
\* pause, paused -> resume, ended or idle -> start playback of the spoken
\* text of the current feedback (nothing when there is none); the toggle
\* itself never changes the status, and the status goes from playing to
\* paused and from paused to playing only by the pause and the resume event
\* of the same utterance, so pausing and toggling again resumes and does not
\* start a new utterance.
C19_SpokenFeedbackToggle ==
  [][ /\ HandleToggleSpokenFeedback =>
           /\ speechState' = speechState
           /\ IF speechState \in {"playing", "paused"}
              THEN /\ synth'.utt.text = synth.utt.text
                   /\ synth'.stale = synth.stale
                   /\ synth'.utt.st # "queued" \/ synth.utt.st = "queued"
                   /\ (speechState = "playing" /\ synth.utt.st = "speaking" =>
                         synth'.utt.st = "pausing")
                   /\ (speechState = "paused" /\ synth.utt.st = "paused" =>
                         synth'.utt.st = "resuming")
              ELSE IF feedback.spokenFeedback # Empty
              THEN synth'.utt =
                     [text |-> FeedbackText(feedback.spokenFeedback), st |-> "queued"]
              ELSE synth' = synth
      /\ (speechState = "playing" /\ speechState' = "paused" =>
            synth.utt.st = "pausing" /\ synth'.utt = [synth.utt EXCEPT !.st = "paused"])
      /\ (speechState = "paused" /\ speechState' = "playing" =>
            synth.utt.st = "resuming" /\ synth'.utt = [synth.utt EXCEPT !.st = "speaking"])
    ]_vars

C19_Witness ==
  /\ feedback # NoFeedback
  /\ speechState = "paused"
  /\ synth.utt = [text |-> FeedbackText(feedback.spokenFeedback), st |-> "resuming"]

\* C20 (as claimed): the single playback status reflects the one active
\* utterance under every interleaving of the device callbacks: it is playing
\* while that utterance plays, paused while it is paused, and ended or idle
\* only when no utterance is playing or paused, also when the end or error
\* notification of an earlier, cancelled utterance arrives after the new
\* utterance has started.
C20_StatusReflectsUtterance ==
  /\ (synth.utt.st \in {"speaking", "pausing"} => speechState = "playing")
  /\ (synth.utt.st \in {"paused", "resuming"} => speechState = "paused")
  /\ (speechState \in {"ended", "idle"} => synth.utt.st \in {"none", "queued"})

\* C21 (as claimed): when the capture device is unavailable, the
\* unavailability is reported exactly once for the session, when the screen is
\* set up and not again on later turns, keystrokes or re-renders, and input
\* degrades to text only: pressing the capture toggle does not fail, does not
\* mark capture active and does not discard the typed text.
C21_UnavailableReportedOnce ==
  [][ ~recAvailable =>
        /\ (~Mounted /\ Mounted' => alerted' = "unsupported")
        /\ (alerted' = "unsupported" => ~Mounted /\ Mounted')
        /\ (HandleToggleListening =>
              /\ ~StartThrows
              /\ ~isListening'
              /\ textAnswer' = textAnswer) ]_vars

\* C22: a session start is aborted when the question generation fails or
\* returns no questions: the host state goes from GENERATING to SETUP with an
\* error message set and INTERVIEW is not entered; whenever the host state is
\* INTERVIEW, ANALYZING or FEEDBACK the question list is non-empty; a session is
\* entered only from GENERATING, and entering it empties the results.
C22_StartAborted ==
  [][ /\ (GenerateRejected \/ GenerateResolved(0) =>
            /\ appState = "GENERATING"
            /\ appState' = "SETUP"
            /\ error' # "none"
            /\ questions' = questions)
      /\ (appState = "GENERATING" /\ appState' # "GENERATING" =>
            appState' \in {"SETUP", "INTERVIEW"})
      /\ (~Mounted /\ Mounted' =>
            /\ appState = "GENERATING"
            /\ appState' = "INTERVIEW"
            /\ results' = << >>)
      /\ (Mounted' => questions' # << >>) ]_vars

C22_Witness ==
  /\ appState = "SETUP"
  /\ error = "noQuestions"
  /\ ~generating
  /\ questions = << >>

\* C23 (as claimed): the devices are torn down only by toggle-off, submit,
\* typing while capturing, advance and unmount: starting capture, the
\* delivery of a transcript event and a keystroke while capture is inactive
\* each leave a running recognition running and a queued or speaking
\* utterance uncancelled.
C23_TeardownOnlyOnRequest ==
  [][ /\ (HandleToggleListening /\ ~isListening /\ ~StartThrows =>
            recState' = "active" /\ synth' = synth)
      /\ (\A ev \in ResultEvents :
            OnResult(ev) => recState' = recState /\ synth' = synth)
      /\ (\A value \in TypedInputs :
            OnChange(value) /\ ~isListening => recState' = recState /\ synth' = synth)
    ]_vars

\* C24: whenever the host state is COMPLETE after a run over n questions the
\* host results have exactly n entries and the i-th entry is the result for
\* questions[i]; COMPLETE is entered only from FEEDBACK on the last question.
C24_CompleteHasAllResults ==
  [][ /\ (appState' = "COMPLETE" =>
            /\ Len(results') = Len(questions')
            /\ Len(questions') > 0
            /\ \A i \in 1..Len(results') : results'[i].question = questions'[i])
      /\ (appState # "COMPLETE" /\ appState' = "COMPLETE" =>
            /\ appState = "FEEDBACK"
            /\ currentQuestionIndex = Len(questions) - 1
            /\ feedback = Last(results).feedback) ]_vars

C24_Witness ==
  /\ appState = "COMPLETE"
  /\ isReportModalOpen
  /\ Len(questions) = 2
  /\ results[1].question = Question(1)
  /\ results[2].question = Question(2)

====
